---- MODULE Spec2Model ----
(***************************************************************************)
(* The streaming scan of tools/src/matroska_info.rs: run() reads a         *)
(* Matroska file through a bounded buffer, decodes the EBML header and the *)
(* segment declaration once, then scans segment-level elements in two      *)
(* loops (metadata loop, cluster loop).                                    *)
(*                                                                         *)
(* The file is a sequence of bytes.  An element of length n is encoded as  *)
(* one head byte carrying its kind, its length and (for unknown IDs) its   *)
(* raw ID, followed by n - 1 payload bytes.  The grammar decodes from the  *)
(* bytes it is handed, exactly as a streaming parser does: it succeeds     *)
(* when the whole element is in view, asks for more bytes when only a      *)
(* prefix is in view, and fails on a malformed head.                       *)
(***************************************************************************)
EXTENDS Integers, Sequences, FiniteSets

VARIABLES
    file,       \* the bytes of the input file (fixed during a run)
    fpos,       \* read offset of the open File (bytes read so far)
    b,          \* the circular::Buffer: memory, position, end
    seek_head,  \* Option<SeekHead>: {} is None, {x} is Some(x)
    info,       \* Option<Info>
    tracks,     \* Option<Tracks>
    consumed,   \* the local _consumed of run()
    pc,         \* position of run() in its code
    result,     \* "running", "Ok", or the InfoError variant returned
    detail,     \* the fields of the returned InfoError variant
    reported,   \* elements printed so far (the println! blocks), in order
    res         \* outcome of the latest grammar call: "Ok", "Error", "Incomplete"

vars == <<file, fpos, b, seek_head, info, tracks, consumed, pc, result, detail,
          reported, res>>

----------------------------------------------------------------------------
(* Bounds of the model *)

\* let capacity = 5_242_880, scaled down
capacity == 4
\* most segment-level elements in a file
MaxElems == 4
\* encoded length of the EBML header
HeaderLen == 2
\* encoded length of the segment declaration (ID and size)
SegmentLen == 1

----------------------------------------------------------------------------
(* Bytes and files *)

Min(x, y) == IF x < y THEN x ELSE y

IdByte(k, n, id) == [k |-> k, n |-> n, id |-> id]
Pad == IdByte("pad", 0, 0)
Zero == IdByte("zero", 0, 0)

RECURSIVE Pads(_)
Pads(n) == IF n <= 0 THEN <<>> ELSE <<Pad>> \o Pads(n - 1)

\* the bytes of one element of kind k and encoded length n
Encode(k, n, id) == <<IdByte(k, n, id)>> \o Pads(n - 1)

\* the variants of SegmentElement the grammar can produce
ElementKinds == {"SeekHead", "Info", "Tracks", "Cluster", "Void", "Unknown"}

\* encoded length of a segment-level element in the input files
ElemLen(k) ==
    CASE k = "SeekHead" -> 2
      [] k = "Info"     -> 1
      [] k = "Tracks"   -> 2
      [] k = "Cluster"  -> 3
      [] k = "Void"     -> 1
      [] k = "Unknown"  -> 2

ElemId(k) == IF k = "Unknown" THEN 171 ELSE 0

RECURSIVE Body(_)
Body(ks) ==
    IF ks = <<>> THEN <<>>
    ELSE Encode(Head(ks), ElemLen(Head(ks)), ElemId(Head(ks))) \o Body(Tail(ks))

\* sequences of at most `max` element kinds drawn from `kinds`, in file order
KindSeqs(kinds, max) == UNION {[1..n -> kinds] : n \in 0..max}

Prefix == Encode("Ebml", HeaderLen, 0) \o Encode("Segment", SegmentLen, 0)

Cut(s) == IF s = <<>> THEN s ELSE SubSeq(s, 1, Len(s) - 1)

\* the element sequences of the input files: every sequence of fewer than
\* `max` elements, every sequence of at most `max` metadata and Void
\* elements, and the three metadata elements followed by `max - 2` more
ElemSeqs(max) ==
    KindSeqs(ElementKinds, max - 1)
    \cup KindSeqs({"SeekHead", "Info", "Tracks", "Void"}, max)
    \cup {<<"SeekHead", "Info", "Tracks">> \o ks : ks \in KindSeqs(ElementKinds, max - 2)}

\* files that are complete; with the last byte missing; ending in an element
\* larger than the buffer; ending in an element with a malformed head
BodyFiles ==
    {Prefix \o Body(ks) : ks \in ElemSeqs(MaxElems)}
    \cup {Cut(Prefix \o Body(ks)) : ks \in ElemSeqs(MaxElems)}
    \cup {Prefix \o Body(ks) \o Encode("Cluster", capacity + 1, 0) :
              ks \in ElemSeqs(MaxElems - 1)}
    \cup {Prefix \o Body(ks) \o Encode("bad", 1, 0) : ks \in ElemSeqs(MaxElems - 1)}

\* files whose header or segment declaration does not decode
HeaderFiles ==
    { <<>>,
      Encode("bad", 1, 0),
      Cut(Encode("Ebml", HeaderLen, 0)),
      Encode("Ebml", HeaderLen, 0),
      Encode("Ebml", HeaderLen, 0) \o Encode("bad", 1, 0) }

Files == BodyFiles \cup HeaderFiles

----------------------------------------------------------------------------
(* circular::Buffer, by its contract: a fixed memory with a read cursor     *)
(* (position) and a write cursor (end); the readable region is             *)
(* memory[position..end], the writable region memory[end..capacity].       *)

available_data(buf) == buf.end - buf.position
available_space(buf) == capacity - buf.end

\* b.data(): the readable region
data(buf) == SubSeq(buf.memory, buf.position + 1, buf.end)

with_capacity ==
    [memory |-> [i \in 1..capacity |-> Zero], position |-> 0, end |-> 0]

fill(buf, count) ==
    [buf EXCEPT !.end = buf.end + Min(count, available_space(buf))]

consume(buf, count) ==
    [buf EXCEPT !.position = buf.position + Min(count, available_data(buf))]

shift(buf) ==
    IF buf.position > 0
    THEN LET length == buf.end - buf.position IN
         [memory   |-> [i \in 1..capacity |->
                            IF i <= length THEN buf.memory[buf.position + i]
                            ELSE buf.memory[i]],
          position |-> 0,
          end      |-> length]
    ELSE buf

\* file.read(b.space()) writing bytes into the writable region
write(buf, bytes) ==
    [buf EXCEPT !.memory = [i \in 1..capacity |->
        IF i > buf.end /\ i <= buf.end + Len(bytes) THEN bytes[i - buf.end]
        ELSE buf.memory[i]]]

\* the sizes File::read may return for a writable region of `space` bytes
ReadSizes(space) ==
    IF space = 0 \/ fpos >= Len(file) THEN {0}
    ELSE 1..Min(space, Len(file) - fpos)

----------------------------------------------------------------------------
(* The element grammar (matroska::ebml, matroska::elements) *)

\* nom's Offset: how many bytes of `input` precede the remaining slice `i`
offset(input, i) == Len(input) - Len(i)

Rest(input, n) == SubSeq(input, n + 1, Len(input))

NoElement == [k |-> "none", id |-> 0, size |-> 0]

\* a decoder of one unit whose head byte has a kind in `kinds`:
\* Ok((remaining, value)), Err(Incomplete) or Err(Error | Failure)
Decode(input, kinds) ==
    IF input = <<>>
    THEN [t |-> "Incomplete", i |-> input, o |-> NoElement]
    ELSE LET h == input[1] IN
         IF h.k \notin kinds
         THEN [t |-> "Error", i |-> input, o |-> NoElement]
         ELSE IF Len(input) < h.n
         THEN [t |-> "Incomplete", i |-> input, o |-> NoElement]
         ELSE [t |-> "Ok", i |-> Rest(input, h.n),
               o |-> [k |-> h.k, id |-> h.id, size |-> h.n - 1]]

ebml_header(input) == Decode(input, {"Ebml"})
segment(input) == Decode(input, {"Segment"})
segment_element(input) == Decode(input, ElementKinds)

----------------------------------------------------------------------------
(* run() *)

Init ==
    /\ file \in Files
    /\ fpos = 0
    /\ b = with_capacity
    /\ seek_head = {}
    /\ info = {}
    /\ tracks = {}
    /\ consumed = 0
    /\ pc = "read"
    /\ result = "running"
    /\ detail = <<>>
    /\ reported = <<>>
    /\ res = "none"

\* return Err(e) / return Ok(()): run() is over
Return(r, d) ==
    /\ pc' = "done"
    /\ result' = r
    /\ detail' = d

\* file.read(b.space())?: the `?` returns InfoError::Io when the read fails
ReadFails ==
    /\ Return("Io", <<>>)
    /\ UNCHANGED <<file, fpos, b, seek_head, info, tracks, consumed, reported, res>>

\* file.read(b.space()) of sz bytes followed by b.fill(sz)
Refilled(sz) ==
    fill(write(b, SubSeq(file, fpos + 1, fpos + sz)), sz)

\* lines 54-55: the single initial read
ReadInitial ==
    /\ pc = "read"
    /\ \/ ReadFails
       \/ \E sz \in ReadSizes(available_space(b)) :
            /\ b' = Refilled(sz)
            /\ fpos' = fpos + sz
            /\ pc' = "header"
            /\ UNCHANGED <<file, seek_head, info, tracks, consumed, result,
                           detail, reported, res>>

\* lines 57-79: decode the EBML header once
ParseHeader ==
    /\ pc = "header"
    /\ LET r == ebml_header(data(b)) IN
       /\ res' = r.t
       /\ IF r.t = "Ok"
          THEN LET length == offset(data(b), r.i) IN
               /\ consumed' = length
               /\ b' = consume(b, length)
               /\ pc' = "segment"
               /\ UNCHANGED <<result, detail>>
          ELSE /\ Return("ParseHeader", <<>>)
               /\ UNCHANGED <<b, consumed>>
    /\ UNCHANGED <<file, fpos, seek_head, info, tracks, reported>>

\* mutant of ParseSegment: Incomplete is answered by a refill and a retry, as
\* in the loops
ParseSegmentRetrying ==
    /\ pc = "segment"
    /\ LET r == segment(data(b)) IN
       /\ res' = r.t
       /\ IF r.t = "Ok"
          THEN LET length == offset(data(b), r.i) IN
               /\ b' = consume(b, length)
               /\ pc' = "meta_top"
               /\ UNCHANGED <<result, detail, fpos>>
          ELSE IF r.t = "Incomplete"
          THEN \E sz \in ReadSizes(available_space(b)) :
                 /\ b' = Refilled(sz)
                 /\ fpos' = fpos + sz
                 /\ UNCHANGED <<pc, result, detail>>
          ELSE /\ Return("ParseHeader", <<>>)
               /\ UNCHANGED <<b, fpos>>
    /\ UNCHANGED <<file, seek_head, info, tracks, consumed, reported>>

\* lines 81-92: decode the segment declaration once
ParseSegment ==
    /\ pc = "segment"
    /\ LET r == segment(data(b)) IN
       /\ res' = r.t
       /\ IF r.t = "Ok"
          THEN LET length == offset(data(b), r.i) IN
               /\ b' = consume(b, length)
               /\ pc' = "meta_top"
               /\ UNCHANGED <<result, detail>>
          ELSE /\ Return("ParseHeader", <<>>)
               /\ UNCHANGED b
    /\ UNCHANGED <<file, fpos, seek_head, info, tracks, consumed, reported>>

\* byte offset in the file of the first unread byte of the buffer
ReadCursor == fpos - available_data(b)

\* what a println! block of a dispatch arm prints: the element and where it is
println(el) == reported' = Append(reported, [k |-> el.k, at |-> ReadCursor, pc |-> pc])

is_some(slot) == slot # {}

\* mutant of Retry: the Incomplete arm drops the partial element
RetryConsuming(top) ==
    /\ pc' = top
    /\ b' = consume(b, available_data(b))
    /\ UNCHANGED <<file, fpos, seek_head, info, tracks, consumed, result,
                   detail, reported>>

\* Err(Err::Incomplete(_)) => continue
Retry(top) ==
    /\ pc' = top
    /\ UNCHANGED <<file, fpos, b, seek_head, info, tracks, consumed, result,
                   detail, reported>>

\* mutant of ParseError: the undecodable byte is skipped and the loop goes on
ParseErrorSkips ==
    /\ pc' = IF pc = "meta_parse" THEN "meta_top" ELSE "cluster_top"
    /\ b' = consume(b, 1)
    /\ UNCHANGED <<file, fpos, seek_head, info, tracks, consumed, result,
                   detail, reported>>

\* Err(Err::Error(e)) | Err(Err::Failure(e)) => return Err(InfoError::Parse(..))
ParseError ==
    /\ Return("Parse", <<>>)
    /\ UNCHANGED <<file, fpos, b, seek_head, info, tracks, consumed, reported>>

\* mutant of Advance: the bytes are consumed but _consumed is not advanced
AdvanceBufferOnly(off, top) ==
    /\ consumed' = consumed
    /\ b' = consume(b, off)
    /\ pc' = top
    /\ UNCHANGED <<file, fpos, result, detail>>

\* lines 259-262 and 318-321: _consumed += offset; b.consume(offset);
Advance(off, top) ==
    /\ consumed' = consumed + off
    /\ b' = consume(b, off)
    /\ pc' = top
    /\ UNCHANGED <<file, fpos, result, detail>>

\* return Err(..) out of a dispatch arm
Fail(r, d) ==
    /\ Return(r, d)
    /\ UNCHANGED <<file, fpos, b, consumed>>

\* mutant of MetaTop: the loop has no exit check at its top
MetaTopNoExitCheck ==
    /\ pc = "meta_top"
    /\ IF available_space(b) = 0
       THEN /\ b' = shift(b)
            /\ pc' = IF available_space(shift(b)) = 0 THEN "cluster_top"
                     ELSE "meta_fill"
       ELSE /\ pc' = "meta_fill"
            /\ UNCHANGED b
    /\ UNCHANGED <<file, fpos, seek_head, info, tracks, consumed, result,
                   detail, reported, res>>

\* mutant of MetaTop: no saturation check after the shift
MetaTopNoSaturationCheck ==
    /\ pc = "meta_top"
    /\ IF is_some(seek_head) /\ is_some(info) /\ is_some(tracks)
       THEN /\ pc' = "cluster_top"
            /\ UNCHANGED b
       ELSE IF available_space(b) = 0
       THEN /\ b' = shift(b)
            /\ pc' = "meta_fill"
       ELSE /\ pc' = "meta_fill"
            /\ UNCHANGED b
    /\ UNCHANGED <<file, fpos, seek_head, info, tracks, consumed, result,
                   detail, reported, res>>

\* mutant of MetaTop: b.reset() where the code calls b.shift()
MetaTopResets ==
    /\ pc = "meta_top"
    /\ IF is_some(seek_head) /\ is_some(info) /\ is_some(tracks)
       THEN /\ pc' = "cluster_top"
            /\ UNCHANGED b
       ELSE IF available_space(b) = 0
       THEN /\ b' = [b EXCEPT !.position = 0, !.end = 0]
            /\ pc' = "meta_fill"
       ELSE /\ pc' = "meta_fill"
            /\ UNCHANGED b
    /\ UNCHANGED <<file, fpos, seek_head, info, tracks, consumed, result,
                   detail, reported, res>>

\* lines 100-110: exit check of the metadata loop, then make room
MetaTop ==
    /\ pc = "meta_top"
    /\ IF is_some(seek_head) /\ is_some(info) /\ is_some(tracks)
       THEN /\ pc' = "cluster_top"
            /\ UNCHANGED b
       ELSE IF available_space(b) = 0
       THEN /\ b' = shift(b)
            /\ pc' = IF available_space(shift(b)) = 0 THEN "cluster_top"
                     ELSE "meta_fill"
       ELSE /\ pc' = "meta_fill"
            /\ UNCHANGED b
    /\ UNCHANGED <<file, fpos, seek_head, info, tracks, consumed, result,
                   detail, reported, res>>

\* mutant of MetaFill: end of file leaves the loop as it does in the cluster loop
MetaFillBreaks ==
    /\ pc = "meta_fill"
    /\ \/ ReadFails
       \/ \E sz \in ReadSizes(available_space(b)) :
            /\ b' = Refilled(sz)
            /\ fpos' = fpos + sz
            /\ pc' = IF available_data(Refilled(sz)) = 0 THEN "cluster_top"
                     ELSE "meta_parse"
            /\ UNCHANGED <<file, seek_head, info, tracks, consumed, result,
                           detail, reported, res>>

\* lines 113-120: refill the buffer; no data after the refill is end of file
MetaFill ==
    /\ pc = "meta_fill"
    /\ \/ ReadFails
       \/ \E sz \in ReadSizes(available_space(b)) :
            /\ b' = Refilled(sz)
            /\ fpos' = fpos + sz
            /\ IF available_data(Refilled(sz)) = 0
               THEN Return("NoMoreData", <<>>)
               ELSE pc' = "meta_parse" /\ UNCHANGED <<result, detail>>
            /\ UNCHANGED <<file, seek_head, info, tracks, consumed, reported, res>>

\* mutant of MetaSeekHead: the slot is assigned before the duplicate check
MetaSeekHeadOverwrite(el, off) ==
    /\ println(el)
    /\ seek_head' = {ReadCursor}
    /\ UNCHANGED <<info, tracks>>
    /\ IF is_some(seek_head)
       THEN Fail("SeekHeadElement", <<>>)
       ELSE Advance(off, "meta_top")

\* lines 132-169
MetaSeekHead(el, off) ==
    /\ println(el)
    /\ IF is_some(seek_head)
       THEN Fail("SeekHeadElement", <<>>) /\ UNCHANGED <<seek_head, info, tracks>>
       ELSE /\ seek_head' = {ReadCursor}
            /\ UNCHANGED <<info, tracks>>
            /\ Advance(off, "meta_top")

\* lines 170-203
MetaInfo(el, off) ==
    /\ println(el)
    /\ IF is_some(info)
       THEN Fail("InfoElement", <<>>) /\ UNCHANGED <<seek_head, info, tracks>>
       ELSE /\ info' = {ReadCursor}
            /\ UNCHANGED <<seek_head, tracks>>
            /\ Advance(off, "meta_top")

\* mutant of MetaTracks: a second Tracks element replaces the first
MetaTracksOverwrite(el, off) ==
    /\ println(el)
    /\ tracks' = {ReadCursor}
    /\ UNCHANGED <<seek_head, info>>
    /\ Advance(off, "meta_top")

\* lines 204-252
MetaTracks(el, off) ==
    /\ println(el)
    /\ IF is_some(tracks)
       THEN Fail("TracksElement", <<>>) /\ UNCHANGED <<seek_head, info, tracks>>
       ELSE /\ tracks' = {ReadCursor}
            /\ UNCHANGED <<seek_head, info>>
            /\ Advance(off, "meta_top")

\* mutant of MetaVoid: Void falls into the catch-all arm
MetaVoidRejected(el, off) ==
    /\ Fail("UnexpectedElement", <<el.k>>)
    /\ UNCHANGED <<seek_head, info, tracks, reported>>

\* lines 253-255
MetaVoid(el, off) ==
    /\ println(el)
    /\ UNCHANGED <<seek_head, info, tracks>>
    /\ Advance(off, "meta_top")

\* mutant of MetaOther: the catch-all arm prints the element and goes on
MetaOtherPrinted(el, off) ==
    /\ println(el)
    /\ UNCHANGED <<seek_head, info, tracks>>
    /\ Advance(off, "meta_top")

\* line 256: el => return Err(InfoError::UnexpectedElement(..))
MetaOther(el, off) ==
    /\ Fail("UnexpectedElement", <<el.k>>)
    /\ UNCHANGED <<seek_head, info, tracks, reported>>

\* lines 131-257: match element
MetaDispatch(el, off) ==
    CASE el.k = "SeekHead" -> MetaSeekHead(el, off)
      [] el.k = "Info"     -> MetaInfo(el, off)
      [] el.k = "Tracks"   -> MetaTracks(el, off)
      [] el.k = "Void"     -> MetaVoid(el, off)
      [] OTHER             -> MetaOther(el, off)

\* lines 122-262: one grammar call of the metadata loop and what follows it
MetaParse ==
    /\ pc = "meta_parse"
    /\ LET r == segment_element(data(b)) IN
       /\ res' = r.t
       /\ CASE r.t = "Ok"         -> MetaDispatch(r.o, offset(data(b), r.i))
            [] r.t = "Error"      -> ParseError
            [] r.t = "Incomplete" -> Retry("meta_top")

\* lines 266-272: make room, or stop when the buffer is full of unread data
ClusterTop ==
    /\ pc = "cluster_top"
    /\ IF available_space(b) = 0
       THEN /\ b' = shift(b)
            /\ IF available_space(shift(b)) = 0
               THEN Return("Ok", <<>>)
               ELSE pc' = "cluster_fill" /\ UNCHANGED <<result, detail>>
       ELSE /\ pc' = "cluster_fill"
            /\ UNCHANGED <<b, result, detail>>
    /\ UNCHANGED <<file, fpos, seek_head, info, tracks, consumed, reported, res>>

\* lines 275-283: refill; no data after the refill ends the loop, then Ok(())
ClusterFill ==
    /\ pc = "cluster_fill"
    /\ \/ ReadFails
       \/ \E sz \in ReadSizes(available_space(b)) :
            /\ b' = Refilled(sz)
            /\ fpos' = fpos + sz
            /\ IF available_data(Refilled(sz)) = 0
               THEN Return("Ok", <<>>)
               ELSE pc' = "cluster_parse" /\ UNCHANGED <<result, detail>>
            /\ UNCHANGED <<file, seek_head, info, tracks, consumed, reported, res>>

\* mutant of ClusterSingleton: the cluster loop answers as the metadata arms do
ClusterSingletonDuplicate(el, off) ==
    /\ Fail(CASE el.k = "SeekHead" -> "SeekHeadElement"
              [] el.k = "Info"     -> "InfoElement"
              [] el.k = "Tracks"   -> "TracksElement", <<>>)
    /\ UNCHANGED <<seek_head, info, tracks, reported>>

\* lines 295-301
ClusterSingleton(el, off) ==
    /\ Fail("UnexpectedElement", <<"seek head, info or tracks element">>)
    /\ UNCHANGED <<seek_head, info, tracks, reported>>

\* mutant of ClusterPrint: the element is printed but not consumed
ClusterPrintNotConsumed(el, off) ==
    /\ println(el)
    /\ pc' = "cluster_top"
    /\ UNCHANGED <<file, fpos, b, consumed, result, detail, seek_head, info, tracks>>

\* lines 302-312: Cluster and Void are printed
ClusterPrint(el, off) ==
    /\ println(el)
    /\ UNCHANGED <<seek_head, info, tracks>>
    /\ Advance(off, "cluster_top")

\* lines 313-315: return Err(InfoError::UnknownElement(_consumed, id, data))
ClusterUnknown(el, off) ==
    /\ Fail("UnknownElement", <<consumed, el.id, el.size>>)
    /\ UNCHANGED <<seek_head, info, tracks, reported>>

\* lines 294-316: match element
ClusterDispatch(el, off) ==
    CASE el.k \in {"SeekHead", "Info", "Tracks"} -> ClusterSingleton(el, off)
      [] el.k \in {"Cluster", "Void"}            -> ClusterPrint(el, off)
      [] el.k = "Unknown"                        -> ClusterUnknown(el, off)

\* lines 285-321: one grammar call of the cluster loop and what follows it
ClusterParse ==
    /\ pc = "cluster_parse"
    /\ LET r == segment_element(data(b)) IN
       /\ res' = r.t
       /\ CASE r.t = "Ok"         -> ClusterDispatch(r.o, offset(data(b), r.i))
            [] r.t = "Error"      -> ParseError
            [] r.t = "Incomplete" -> Retry("cluster_top")

Next ==
    \/ ReadInitial
    \/ ParseHeader
    \/ ParseSegment
    \/ MetaTop
    \/ MetaFill
    \/ MetaParse
    \/ ClusterTop
    \/ ClusterFill
    \/ ClusterParse

Spec == Init /\ [][Next]_vars

\* run() is sequential code: whenever it can take a step it takes one
FairSpec == Spec /\ WF_vars(Next)

----------------------------------------------------------------------------
(* Vocabulary of the properties *)

AllSet == is_some(seek_head) /\ is_some(info) /\ is_some(tracks)

MetaPcs == {"meta_top", "meta_fill", "meta_parse"}
ClusterPcs == {"cluster_top", "cluster_fill", "cluster_parse"}

\* the scanner is about to call the grammar on the readable region
AtParse == pc \in {"meta_parse", "cluster_parse"}

\* what the grammar answers for the current readable region
Outcome == segment_element(data(b))

\* the start of the loop of the phase the scanner is in
LoopTop == IF pc \in MetaPcs THEN "meta_top" ELSE "cluster_top"

----------------------------------------------------------------------------
(* C1: when the grammar reports Incomplete for the readable region, in the  *)
(* metadata loop or in the cluster loop, that step consumes nothing,        *)
(* prints nothing, leaves _consumed, the three slots, the buffer cursors    *)
(* and the buffer content unchanged, returns nothing, and goes back to the  *)
(* start of the same loop.                                                  *)
C1_IncompleteChangesNothing ==
    [][(AtParse /\ Outcome.t = "Incomplete") =>
          /\ pc' = LoopTop
          /\ b' = b
          /\ fpos' = fpos
          /\ consumed' = consumed
          /\ <<seek_head', info', tracks'>> = <<seek_head, info, tracks>>
          /\ reported' = reported
          /\ result' = result]_vars

\* the cluster loop is back at its start after an Incomplete outcome
C1_Witness ==
    /\ pc = "cluster_top"
    /\ res = "Incomplete"
    /\ available_data(b) > 0

----------------------------------------------------------------------------
(* C2: after every Incomplete outcome, in either loop, the scanner          *)
(* eventually calls the grammar again on a strictly larger readable region  *)
(* (nothing was consumed, so a different window is a larger one), or the    *)
(* scan is over (saturation, end of file, or a failure); it does not call   *)
(* the grammar forever on the same buffer content.                          *)
C2_RetrySeesMoreBytes ==
    \A n \in 0..capacity :
        (AtParse /\ Outcome.t = "Incomplete" /\ available_data(b) = n)
            ~> (pc = "done" \/ (AtParse /\ available_data(b) > n))

----------------------------------------------------------------------------
(* C3: in the metadata loop, decoding a SeekHead, Info or Tracks element    *)
(* whose slot is already set returns the duplicate error of that kind       *)
(* (SeekHeadElement, InfoElement, TracksElement), whatever was seen before. *)
DuplicateError(k) ==
    CASE k = "SeekHead" -> "SeekHeadElement"
      [] k = "Info"     -> "InfoElement"
      [] k = "Tracks"   -> "TracksElement"

Slot(k) ==
    CASE k = "SeekHead" -> seek_head
      [] k = "Info"     -> info
      [] k = "Tracks"   -> tracks

C3_DuplicateSingletonFails ==
    [][\A k \in {"SeekHead", "Info", "Tracks"} :
          (pc = "meta_parse" /\ Outcome.t = "Ok" /\ Outcome.o.k = k
             /\ is_some(Slot(k)) /\ ~AllSet)
          => (pc' = "done" /\ result' = DuplicateError(k))]_vars

\* a second Tracks element after a Void and another singleton in between
C3_Witness ==
    /\ result = "TracksElement"
    /\ \E i, j, l \in DOMAIN reported :
          /\ i < j /\ j < l
          /\ reported[i].k = "Tracks"
          /\ reported[j].k \in {"Void", "SeekHead", "Info"}
          /\ reported[l].k \in {"Void", "SeekHead", "Info"}
          /\ reported[j].k # reported[l].k

----------------------------------------------------------------------------
(* C4: for every file that holds SeekHead, Info and Tracks exactly once     *)
(* each, in any order, among any number of Void elements, all complete and  *)
(* no larger than the buffer, the metadata loop raises no failure and ends  *)
(* with all three slots set.  (A run whose read fails, or whose single      *)
(* initial read is too short for the header, does not decode every element  *)
(* and ends with Io or ParseHeader.)                                        *)
Count(ks, k) == Cardinality({i \in DOMAIN ks : ks[i] = k})

SingletonSeqs ==
    {ks \in KindSeqs({"SeekHead", "Info", "Tracks", "Void"}, MaxElems) :
        \A k \in {"SeekHead", "Info", "Tracks"} : Count(ks, k) = 1}

SingletonFiles == {Prefix \o Body(ks) : ks \in SingletonSeqs}

InitSingletons == Init /\ file \in SingletonFiles

SingletonSpec == InitSingletons /\ [][Next]_vars /\ WF_vars(Next)

C4_SingletonsCompleteMetadata ==
    /\ [](result \in {"running", "Ok", "Io", "ParseHeader"})
    /\ [](pc \in ClusterPcs => AllSet)
    /\ [](result = "Ok" => AllSet)
    /\ [](pc \in MetaPcs => <>(result = "Io" \/ (pc = "cluster_top" /\ AllSet)))

\* the metadata loop has ended with Tracks first and a Void between singletons
C4_Witness ==
    /\ pc = "cluster_top"
    /\ AllSet
    /\ Len(reported) = 4
    /\ reported[1].k = "Tracks"
    /\ reported[2].k = "Void"
    /\ reported[4].k \in {"SeekHead", "Info"}

----------------------------------------------------------------------------
(* C5: no Cluster element is printed while a metadata slot is empty: a      *)
(* Cluster decoded while a slot is empty returns UnexpectedElement without  *)
(* being printed, and a Cluster is printed only by the cluster loop, with   *)
(* all three slots set.                                                     *)
C5_NoClusterBeforeMetadata ==
    [][/\ (AtParse /\ Outcome.t = "Ok" /\ Outcome.o.k = "Cluster" /\ ~AllSet)
             => /\ pc' = "done"
                /\ result' = "UnexpectedElement"
                /\ reported' = reported
       /\ (reported' # reported /\ reported'[Len(reported')].k = "Cluster")
             => (AllSet /\ pc = "cluster_parse")]_vars

\* a Cluster met after Info was stored and before Tracks was
C5_Witness ==
    /\ result = "UnexpectedElement"
    /\ detail = <<"Cluster">>
    /\ is_some(info)
    /\ ~is_some(tracks)

----------------------------------------------------------------------------
(* C6: _consumed never decreases; a grammar success whose dispatch goes on  *)
(* to the next iteration adds to it exactly the number of bytes the grammar *)
(* consumed, which is positive and is the number of bytes that leave the    *)
(* readable region; an Incomplete outcome leaves it unchanged.              *)
C6_ScanPositionAdvance ==
    [][/\ consumed' >= consumed
       /\ (AtParse /\ Outcome.t = "Ok" /\ pc' = LoopTop)
             => /\ consumed' = consumed + offset(data(b), Outcome.i)
                /\ consumed' > consumed
                /\ consumed' - consumed = available_data(b) - available_data(b')
       /\ (AtParse /\ Outcome.t = "Incomplete") => consumed' = consumed]_vars

\* the cluster loop has just dispatched a Cluster and consumed it
C6_Witness ==
    /\ pc = "cluster_top"
    /\ res = "Ok"
    /\ reported # <<>>
    /\ reported[Len(reported)].k = "Cluster"

----------------------------------------------------------------------------
(* C7: at every point of the scan _consumed is the number of bytes consumed *)
(* from the buffer since the start of the file (header, segment declaration *)
(* and every element consumed so far), which is the file offset of the      *)
(* first unread byte.                                                       *)
C7_ScanPositionIsBytesConsumed == consumed = ReadCursor

----------------------------------------------------------------------------
(* C8: when the cluster loop decodes Unknown(id, size) the scan returns     *)
(* UnknownElement(position, id, size) with position the file offset at      *)
(* which that element begins and id, size the values the grammar returned.  *)
C8_UnknownElementOffset ==
    result = "UnknownElement" =>
        /\ file[ReadCursor + 1].k = "Unknown"
        /\ detail = <<ReadCursor, file[ReadCursor + 1].id, file[ReadCursor + 1].n - 1>>

----------------------------------------------------------------------------
(* C9: the scan returns Ok only if all three metadata slots are set; when   *)
(* saturation stops the metadata loop with a slot empty it does not return  *)
(* Ok.                                                                      *)
C9_OkOnlyWithMetadata == result = "Ok" => AllSet

----------------------------------------------------------------------------
(* C10: when a refill leaves the buffer with no unread data the file is     *)
(* exhausted; in the metadata loop (where a slot is still empty) the scan   *)
(* returns NoMoreData, in the cluster loop it returns Ok; a refill that     *)
(* leaves unread data ends nothing.                                         *)
Refill == pc \in {"meta_fill", "cluster_fill"} /\ result' # "Io"

C10_EndOfFile ==
    [][/\ (Refill /\ pc = "meta_fill" /\ available_data(b') = 0)
             => /\ ~AllSet
                /\ fpos' = Len(file)
                /\ pc' = "done"
                /\ result' = "NoMoreData"
       /\ (Refill /\ pc = "cluster_fill" /\ available_data(b') = 0)
             => /\ fpos' = Len(file)
                /\ pc' = "done"
                /\ result' = "Ok"
       /\ (Refill /\ available_data(b') > 0) => pc' # "done"]_vars

\* end of file in the metadata loop with Info stored and another slot empty
C10_Witness ==
    /\ result = "NoMoreData"
    /\ is_some(info)
    /\ ~AllSet
    /\ fpos = Len(file)
    /\ available_data(b) = 0

----------------------------------------------------------------------------
(* C11: the elements dispatched so far, in both loops together, are the     *)
(* first elements of the file in file order, each at its own offset: none   *)
(* is dispatched twice and none is skipped; and the bytes consumed so far   *)
(* are exactly the header, the segment declaration and the elements         *)
(* consumed so far.                                                         *)

\* the complete, well-formed elements of the file from byte offset `at` on
RECURSIVE FileElements(_)
FileElements(at) ==
    IF at >= Len(file) THEN <<>>
    ELSE LET h == file[at + 1] IN
         IF h.k \notin ElementKinds \/ at + h.n > Len(file) THEN <<>>
         ELSE <<[k |-> h.k, at |-> at, n |-> h.n]>> \o FileElements(at + h.n)

BodyStart == HeaderLen + SegmentLen

\* a duplicate singleton is printed by the step that returns its error, and
\* is not consumed
LastNotConsumed == result \in {"SeekHeadElement", "InfoElement", "TracksElement"}

C11_DispatchIsFilePrefix ==
    LET elems == FileElements(BodyStart)
        n == Len(reported)
        m == IF LastNotConsumed THEN n - 1 ELSE n
    IN  /\ n <= Len(elems)
        /\ \A i \in 1..n : reported[i].k = elems[i].k /\ reported[i].at = elems[i].at
        /\ IF m > 0 THEN ReadCursor = elems[m].at + elems[m].n
           ELSE ReadCursor \in {0, HeaderLen, BodyStart}

\* four elements dispatched across both loops, the last after a compaction
C11_Witness ==
    /\ pc = "cluster_top"
    /\ Len(reported) = 4
    /\ reported[4].pc = "cluster_parse"
    /\ reported[3].pc = "meta_parse"
    /\ fpos > capacity

----------------------------------------------------------------------------
(* C12: over the fill, consume and shift calls of a scan, available data    *)
(* plus available space never exceeds the capacity, and the readable bytes  *)
(* change only by a fill appending at the end (the bytes just read from the *)
(* file) and a consume dropping from the front; the shift at the top of a   *)
(* loop leaves the readable bytes identical.                                *)

\* s with its first n elements dropped
Drop(s, n) == SubSeq(s, n + 1, Len(s))

C12_BufferInvariant ==
    [][ /\ 0 <= b'.position /\ b'.position <= b'.end /\ b'.end <= capacity
        /\ available_data(b') + available_space(b') <= capacity
        /\ pc \in {"meta_top", "cluster_top"} => data(b') = data(b)
        /\ pc \in {"read", "meta_fill", "cluster_fill"} =>
               data(b') = data(b) \o SubSeq(file, fpos + 1, fpos')
        /\ pc \in {"header", "segment", "meta_parse", "cluster_parse"} =>
               /\ fpos' = fpos
               /\ \E n \in 0..Len(data(b)) : data(b') = Drop(data(b), n)
      ]_vars

\* a shift has moved unread bytes to the start of the buffer, and a fill has
\* appended to them
C12_Witness ==
    /\ pc = "meta_parse"
    /\ b.position = 0
    /\ fpos > capacity
    /\ available_data(b) > fpos - capacity

----------------------------------------------------------------------------
(* C13: each of the three metadata slots is write-once: a slot that is set  *)
(* keeps its value in every later step of the scan; and no step of the      *)
(* cluster phase sets or clears a slot.                                     *)

C13_SlotsWriteOnce ==
    [][ /\ is_some(seek_head) => seek_head' = seek_head
        /\ is_some(info) => info' = info
        /\ is_some(tracks) => tracks' = tracks
        /\ pc \in ClusterPcs => <<seek_head, info, tracks>>' = <<seek_head, info, tracks>>
      ]_vars

\* a second SeekHead was decoded at another offset and the slot still holds
\* the first one
C13_Witness ==
    /\ result = "SeekHeadElement"
    /\ is_some(seek_head)
    /\ seek_head # {ReadCursor}
    /\ Len(reported) >= 3

----------------------------------------------------------------------------
(* C14: in the metadata phase a SeekHead, Info or Tracks element is         *)
(* forwarded to the reporter only when its slot is empty; a duplicate ends  *)
(* the scan without being forwarded, so each singleton kind is reported at  *)
(* most once per scan.                                                      *)

\* the positions of the report at which an element of kind k was forwarded
ReportsOf(k) == {i \in DOMAIN reported : reported[i].k = k}

C14_SingletonReportedOnce ==
    \A k \in {"SeekHead", "Info", "Tracks"} : Cardinality(ReportsOf(k)) <= 1

----------------------------------------------------------------------------
(* C15: in the cluster phase a decoded SeekHead, Info or Tracks element     *)
(* always ends the scan with UnexpectedElement, never with a duplicate      *)
(* error and never forwarded to the reporter; a decoded Cluster or Void is  *)
(* forwarded to the reporter and the scan goes on.                          *)

C15_ClusterPhaseDispatch ==
    [][ (pc = "cluster_parse" /\ Outcome.t = "Ok") =>
          /\ Outcome.o.k \in {"SeekHead", "Info", "Tracks"} =>
               /\ pc' = "done"
               /\ result' = "UnexpectedElement"
               /\ detail' = <<"seek head, info or tracks element">>
               /\ reported' = reported
          /\ Outcome.o.k \in {"Cluster", "Void"} =>
               /\ Len(reported') = Len(reported) + 1
               /\ reported'[Len(reported')].k = Outcome.o.k
               /\ reported'[Len(reported')].at = ReadCursor
               /\ SubSeq(reported', 1, Len(reported)) = reported
               /\ pc' = "cluster_top"
               /\ result' = "running"
      ]_vars

\* a singleton recurs after the cluster phase has reported an element
C15_Witness ==
    /\ result = "UnexpectedElement"
    /\ detail = <<"seek head, info or tracks element">>
    /\ \E i \in DOMAIN reported : reported[i].pc = "cluster_parse"

----------------------------------------------------------------------------
(* C16: in either phase, when the buffer has no space and the shift         *)
(* recovers none, the phase stops without a typed failure, and that         *)
(* iteration reads nothing from the file, calls the grammar on nothing,     *)
(* dispatches nothing and consumes nothing.                                 *)

\* the buffer is full of unread data: no space, and none after a shift
Saturated == available_space(b) = 0 /\ available_space(shift(b)) = 0

C16_SaturationStopsPhase ==
    [][ (Saturated /\ (pc = "cluster_top" \/ (pc = "meta_top" /\ ~AllSet))) =>
          /\ fpos' = fpos
          /\ res' = res
          /\ reported' = reported
          /\ consumed' = consumed
          /\ data(b') = data(b)
          /\ <<seek_head, info, tracks>>' = <<seek_head, info, tracks>>
          /\ pc = "meta_top" => pc' = "cluster_top" /\ result' = "running"
          /\ pc = "cluster_top" => pc' = "done" /\ result' = "Ok"
      ]_vars

\* the cluster phase stopped on a full buffer with file bytes still unread
C16_Witness ==
    /\ pc = "done"
    /\ result = "Ok"
    /\ AllSet
    /\ Saturated
    /\ fpos < Len(file)

----------------------------------------------------------------------------
(* C17: the header decode and the segment-declaration decode each happen    *)
(* once, on the bytes of the single initial read, with no refill and no     *)
(* retry: any outcome other than success, Incomplete included, ends the     *)
(* scan with ParseHeader before any segment-level element is decoded.       *)

C17_HeaderDecodedOnce ==
    [][ /\ pc' = "read" => pc = "read"
        /\ pc' = "header" => pc \in {"read", "header"}
        /\ pc' = "segment" => pc \in {"header", "segment"}
        /\ pc \in {"header", "segment"} =>
             /\ fpos' = fpos
             /\ pc' # pc
             /\ reported' = <<>> /\ consumed' <= HeaderLen
             /\ seek_head' = {} /\ info' = {} /\ tracks' = {}
        /\ (pc = "header" /\ ebml_header(data(b)).t # "Ok") =>
             pc' = "done" /\ result' = "ParseHeader" /\ b' = b
        /\ (pc = "segment" /\ segment(data(b)).t # "Ok") =>
             pc' = "done" /\ result' = "ParseHeader" /\ b' = b
      ]_vars

\* the segment declaration was cut short by the initial read although the
\* file has more bytes
C17_Witness ==
    /\ result = "ParseHeader"
    /\ res = "Incomplete"
    /\ consumed = HeaderLen
    /\ fpos < Len(file)

----------------------------------------------------------------------------
(* C18: an Error outcome of the grammar, in either phase, ends the scan     *)
(* with Parse; the first failure of any kind ends the scan; the step that   *)
(* fails reads nothing, consumes nothing, changes no slot and leaves the    *)
(* scan position alone, and nothing at all happens after it, so the bytes   *)
(* of the failing element are never consumed.                               *)

Failures ==
    {"Io", "ParseHeader", "NoMoreData", "Parse", "SeekHeadElement", "InfoElement",
     "TracksElement", "UnexpectedElement", "UnknownElement"}

C18_FirstFailureIsTerminal ==
    [][ /\ (AtParse /\ Outcome.t = "Error") => pc' = "done" /\ result' = "Parse"
        /\ result' \in Failures =>
             /\ result = "running"
             /\ pc' = "done"
             /\ b' = b
             /\ fpos' = fpos
             /\ consumed' = consumed
             /\ <<seek_head, info, tracks>>' = <<seek_head, info, tracks>>
        /\ result' # "running" => pc' = "done"
        /\ pc # "done"
      ]_vars

\* the cluster phase met bytes that do not decode; they are still unread
C18_Witness ==
    /\ result = "Parse"
    /\ AllSet
    /\ available_data(b) > 0
    /\ segment_element(data(b)).t = "Error"

----------------------------------------------------------------------------
(* C19: the metadata loop tests its exit condition before each iteration:   *)
(* once all three slots are set it reads nothing more, calls the grammar no *)
(* more and dispatches nothing more, and the element after the third        *)
(* singleton is dispatched by the cluster loop: a singleton there yields    *)
(* UnexpectedElement, and no element there changes a slot.                  *)

C19_ExitCheckedFirst ==
    [][ /\ (AllSet /\ pc \in MetaPcs) =>
             /\ pc = "meta_top" /\ pc' = "cluster_top"
             /\ fpos' = fpos /\ b' = b /\ res' = res
             /\ reported' = reported /\ consumed' = consumed
             /\ result' = "running"
        /\ (AllSet /\ AtParse /\ Outcome.t = "Ok") =>
             /\ pc = "cluster_parse"
             /\ <<seek_head, info, tracks>>' = <<seek_head, info, tracks>>
             /\ Outcome.o.k \in {"SeekHead", "Info", "Tracks"} =>
                    result' = "UnexpectedElement"
             /\ Outcome.o.k = "Void" => result' = "running" /\ pc' = "cluster_top"
      ]_vars

\* a singleton directly after the third singleton was refused by the cluster
\* loop
C19_Witness ==
    /\ result = "UnexpectedElement"
    /\ detail = <<"seek head, info or tracks element">>
    /\ Len(reported) = 3
    /\ \A i \in 1..3 : reported[i].k \in {"SeekHead", "Info", "Tracks"}

----------------------------------------------------------------------------
(* C20: for every finite input file, also one that ends in the middle of an *)
(* element, the scan terminates: it eventually returns success or a typed   *)
(* failure, in the metadata phase as well as in the cluster phase.          *)

C20_ScanTerminates == <>(pc = "done" /\ result \in Failures \cup {"Ok"})

====
